---- MODULE Spec2Model ----
(***************************************************************************)
(* A model of notion_mcp/server.py: the module start-up (configuration    *)
(* loading and validation), the Notion tools (show_today_tasks,           *)
(* list_all_tasks, get_database_schema, add_task_to_notion,               *)
(* add_articles_as_reading_tasks) run against a stub Notion backend that   *)
(* stores created pages, and the feed tool (fetch_latest_articles).       *)
(*                                                                         *)
(* Python values are modelled as follows.  An optional value (None or a   *)
(* value) is a sequence of length 0 or 1.  A str that the code inspects   *)
(* (dates, lines of feeds.txt) is a sequence of one-character strings.    *)
(* A dict is a function whose DOMAIN is the set of its keys.  A returned  *)
(* value is a record [type, form, body]: type is the Python type, form    *)
(* tells a fixed sentence from an error text from json.dumps output.      *)
(* An evaluation that may raise yields [raised, exc, value].              *)
(***************************************************************************)
EXTENDS Integers, Sequences, FiniteSets, TLC

VARIABLES
    envFileExists,   \* env_path.exists()
    environ,         \* what os.getenv answers once load_dotenv has run
    pc,              \* position of the module start-up / the server
    NOTION_API_KEY,  \* module global
    DATABASE_ID,     \* module global
    mcp,             \* the FastMCP instance: "unset" until line 34 runs
    startupError,    \* the exception that ended the import, if any
    pages,           \* the stub Notion backend: pages created through POST /pages
    call,            \* the last completed invocation: inputs, outcome, result
    fetch            \* locals of a fetch_latest_articles invocation in progress

vars == <<envFileExists, environ, pc, NOTION_API_KEY, DATABASE_ID, mcp,
          startupError, pages, call, fetch>>

(***************************************************************************)
(* Bounds of the model.                                                    *)
(***************************************************************************)
MaxPages == 2      \* pages the stub backend stores
MaxExisting == 1   \* pages of the database not created through the stub
MaxArticles == 2   \* articles given to add_articles_as_reading_tasks
MaxLines == 2      \* lines of feeds.txt
MaxEntries == 6    \* entries of one feed

None == <<>>
Some(x) == <<x>>

Min(a, b) == IF a < b THEN a ELSE b

RECURSIVE SeqsUpTo(_, _)
SeqsUpTo(S, n) ==
    IF n = 0 THEN {<<>>}
    ELSE LET shorter == SeqsUpTo(S, n - 1)
         IN shorter \cup {Append(s, x) : s \in {t \in shorter : Len(t) = n - 1}, x \in S}

Reverse(s) == [i \in 1..Len(s) |-> s[Len(s) + 1 - i]]

DigitChar(n) == <<"0", "1", "2", "3", "4", "5", "6", "7", "8", "9">>[n + 1]

RECURSIVE Pow10(_)
Pow10(k) == IF k = 0 THEN 1 ELSE 10 * Pow10(k - 1)

\* The decimal digits of n, zero-padded to width w.
Pad(n, w) == [i \in 1..w |-> DigitChar((n \div Pow10(w - i)) % 10)]

\* date.isoformat(): YYYY-MM-DD.
IsoFormat(d) == Pad(d.year, 4) \o <<"-">> \o Pad(d.month, 2) \o <<"-">> \o Pad(d.day, 2)

\* str.startswith(prefix).
StartsWith(s, prefix) ==
    /\ Len(s) >= Len(prefix)
    /\ SubSeq(s, 1, Len(prefix)) = prefix

(***************************************************************************)
(* Evaluation results: a value, or a raised exception.                     *)
(***************************************************************************)
Ok(v) == [raised |-> FALSE, exc |-> "", value |-> <<v>>]
Raise(e) == [raised |-> TRUE, exc |-> e, value |-> <<>>]

\* A returned str that is a fixed sentence.
Sentence(s) == [type |-> "str", form |-> "sentence", body |-> <<s>>]
\* A returned str that is an f-string built around str(e).
ErrorText(prefix, e) == [type |-> "str", form |-> "error", body |-> <<prefix, e>>]
\* json.dumps(x, indent=2): a str that holds the JSON text of x.
JsonDumps(x) == [type |-> "str", form |-> "json", body |-> <<x>>]
\* A returned dict (response.json()).
DictValue(d) == [type |-> "dict", form |-> "dict", body |-> <<d>>]

\* No value: the invocation ended with an exception.
NoResult == [type |-> "none", form |-> "none", body |-> <<>>]

NoCall == [tool |-> "none"]

(***************************************************************************)
(* Module start-up, server.py lines 15-40.                                 *)
(***************************************************************************)
EnvValues == {None, Some(""), Some("secret")}

\* Python truth of an os.getenv result: None and "" are falsy.
Truthy(v) == v # None /\ v # Some("")

MissingKeyError(key) ==
    [type |-> "ValueError", msg |-> <<key, " not found in .env file">>]

EnvFileError ==
    [type |-> "FileNotFoundError", msg |-> <<"No .env file found at ", "env_path">>]

\* A faulty variant of ValidateSettings: the two messages swapped.
ValidateSettingsSwapped(apiKey, dbId) ==
    IF ~Truthy(apiKey) THEN Some(MissingKeyError("NOTION_DATABASE_ID"))
    ELSE IF ~Truthy(dbId) THEN Some(MissingKeyError("NOTION_API_KEY"))
    ELSE None

\* Lines 29-32: the error raised for the settings read, None when both are set.
ValidateSettings(apiKey, dbId) ==
    IF ~Truthy(apiKey) THEN Some(MissingKeyError("NOTION_API_KEY"))
    ELSE IF ~Truthy(dbId) THEN Some(MissingKeyError("NOTION_DATABASE_ID"))
    ELSE None

\* Lines 16-22: the .env file must exist, then load_dotenv.
LoadEnv ==
    /\ pc = "import"
    /\ IF envFileExists
       THEN /\ pc' = "env_loaded"
            /\ UNCHANGED startupError
       ELSE /\ pc' = "import_failed"
            /\ startupError' = Some(EnvFileError)
    /\ UNCHANGED <<envFileExists, environ, NOTION_API_KEY, DATABASE_ID, mcp,
                   pages, call, fetch>>

\* Lines 24-32: read the settings, raise on a missing required one.
ReadSettings ==
    /\ pc = "env_loaded"
    /\ NOTION_API_KEY' = environ["NOTION_API_KEY"]
    /\ DATABASE_ID' = environ["NOTION_DATABASE_ID"]
    /\ LET err == ValidateSettings(environ["NOTION_API_KEY"], environ["NOTION_DATABASE_ID"])
       IN IF err = None
          THEN /\ pc' = "validated"
               /\ UNCHANGED startupError
          ELSE /\ pc' = "import_failed"
               /\ startupError' = err
    /\ UNCHANGED <<envFileExists, environ, mcp, pages, call, fetch>>

\* Lines 34-40 and the decorators: the server object exists, the tools are
\* registered on it, and __init__.main serves it.
CreateServer ==
    /\ pc = "validated"
    /\ mcp' = "Notion Task Manager"
    /\ pc' = "serving"
    /\ UNCHANGED <<envFileExists, environ, NOTION_API_KEY, DATABASE_ID,
                   startupError, pages, call, fetch>>

(***************************************************************************)
(* The Notion database as the tools see it.                                *)
(***************************************************************************)
Titles == {"Read X", "Read Y"}
Urls == {"https://example.com/x"}

Day1 == [year |-> 2026, month |-> 11, day |-> 6]
Day2 == [year |-> 2026, month |-> 11, day |-> 7]
Days == {Day1, Day2}

\* Deadline start strings: a date, a date with a time, another date.
DeadlineStarts ==
    {IsoFormat(Day1), IsoFormat(Day1) \o <<"T", "0", "9", ":", "0", "0">>, IsoFormat(Day2)}

RichText(content) == [text |-> [content |-> content]]

TaskProps == {[title |-> <<>>]} \cup {[title |-> <<RichText(t)>>] : t \in Titles}
CheckboxProps == {[checkbox |-> b] : b \in BOOLEAN}
DeadlineProps == {[date |-> None]} \cup {[date |-> Some([start |-> s])] : s \in DeadlineStarts}

Optional(S) == {None} \cup {Some(x) : x \in S}

\* The property bag of a page: each optional property is present or absent.
PropsOf(t, c, d) ==
    LET keys == (IF t # None THEN {"Task"} ELSE {})
                \cup (IF c # None THEN {"Checkbox"} ELSE {})
                \cup (IF d # None THEN {"Deadline"} ELSE {})
    IN [k \in keys |-> CASE k = "Task" -> t[1]
                         [] k = "Checkbox" -> c[1]
                         [] k = "Deadline" -> d[1]]

\* Property bags of the pages that were not created through add_task_to_notion.
ExistingProps ==
    {PropsOf(t, c, d) :
        t \in Optional(TaskProps), c \in Optional(CheckboxProps), d \in Optional(DeadlineProps)}

\* The i-th such page of a query response.
ExistingPage(props, i) ==
    [id |-> <<"existing", i>>, created_time |-> 0, properties |-> props]

\* The page the stub backend stores for the payload of lines 212-222.
CreatedPage(title, url, n) ==
    [id |-> <<"created", n>>, created_time |-> n,
     properties |-> [k \in {"Task", "URL"} |->
                        IF k = "Task" THEN [title |-> <<RichText(title)>>]
                        ELSE [url |-> url]]]

HttpErrors == {"HTTPStatusError", "ConnectError"}

\* What POST /databases/{id}/query answers: an error, or a body whose results are
\* the stored pages, newest first (the sort of lines 51-56), then the others.  A
\* body without a "results" key stands for an empty database as well.
QueryOutcomes ==
    {[ok |-> FALSE, exc |-> e, body |-> <<>>] : e \in HttpErrors}
    \cup {[ok |-> TRUE, exc |-> "",
           body |-> [k \in {"results"} |->
                        Reverse(pages) \o [i \in 1..Len(ex) |-> ExistingPage(ex[i], i)]]] :
             ex \in SeqsUpTo(ExistingProps, MaxExisting)}
    \cup (IF pages = <<>> THEN {[ok |-> TRUE, exc |-> "", body |-> <<>>]} ELSE {})

\* Lines 42-60: the decoded body, or the exception of the request.
fetch_tasks(outcome) == IF outcome.ok THEN Ok(outcome.body) ELSE Raise(outcome.exc)

\* dict.get(key, default)
Get(dict, key, default) == IF key \in DOMAIN dict THEN dict[key] ELSE default

PyStr(s) == [py |-> "str", v |-> s]

\* obj[key] for a str key: a dict answers or raises KeyError, a str raises TypeError.
GetItem(obj, key) ==
    IF obj.py = "str" THEN Raise("TypeError: string indices must be integers")
    ELSE IF key \notin DOMAIN obj.v THEN Raise("KeyError")
    ELSE Ok(obj.v[key])

\* Lines 117-140 (and 71-94): the body of the loop over the results.  The loop
\* variable `task` holds the page; line 120 (74) rebinds the same name to the
\* title string, and lines 135 and 139 (89, 93) subscript that name.
FormatTask(page) ==
    LET props == page.properties
        title == IF "Task" \in DOMAIN props /\ props["Task"].title # <<>>
                 THEN props["Task"].title[1].text.content
                 ELSE ""
        task == PyStr(title)
        completed == IF "Checkbox" \in DOMAIN props
                     THEN props["Checkbox"].checkbox
                     ELSE FALSE
        deadline == IF "Deadline" \in DOMAIN props /\ props["Deadline"].date # None
                    THEN Some(props["Deadline"].date[1].start)
                    ELSE None
        id == GetItem(task, "id")
        created == GetItem(task, "created_time")
    IN IF id.raised THEN Raise(id.exc)
       ELSE IF created.raised THEN Raise(created.exc)
       ELSE Ok([id |-> id.value[1], task |-> task.v, completed |-> completed,
                deadline |-> deadline, created |-> created.value[1]])

\* Line 97: `deadline and deadline.startswith(today)`.
IsToday(deadline, today) ==
    /\ deadline # None
    /\ deadline[1] # <<>>
    /\ StartsWith(deadline[1], today)

\* The loop of lines 116-142 (keepAll) or 70-98: the formatted tasks, or the
\* first exception raised in it.
RECURSIVE FormatLoop(_, _, _, _)
FormatLoop(results, acc, keepAll, today) ==
    IF results = <<>> THEN Ok(acc)
    ELSE LET f == FormatTask(Head(results))
         IN IF f.raised THEN Raise(f.exc)
            ELSE FormatLoop(Tail(results),
                            IF keepAll \/ IsToday(f.value[1].deadline, today)
                            THEN Append(acc, f.value[1]) ELSE acc,
                            keepAll, today)

TasksError(e) ==
    ErrorText("Error fetching tasks: ", e)

\* A faulty variant of ListResult: the empty case is not told apart.
ListResultNoSentinel(formatted) == JsonDumps(formatted)

\* Lines 144-147.
ListResult(formatted) ==
    IF formatted = <<>> THEN Sentence("No tasks found in the database.")
    ELSE JsonDumps(formatted)

\* Lines 100-103.
TodayResult(formatted) ==
    IF formatted = <<>> THEN Sentence("No tasks scheduled for today.")
    ELSE JsonDumps(formatted)

\* Lines 112-151: what list_all_tasks returns for a query outcome.
ListAllTasksReturn(outcome) ==
    LET tasks == fetch_tasks(outcome)
    IN IF tasks.raised THEN TasksError(tasks.exc)
       ELSE LET loop == FormatLoop(Get(tasks.value[1], "results", <<>>), <<>>, TRUE, <<>>)
            IN IF loop.raised THEN TasksError(loop.exc)
               ELSE ListResult(loop.value[1])

\* Lines 65-107: what show_today_tasks returns for a query outcome and a day.
ShowTodayTasksReturn(outcome, day) ==
    LET tasks == fetch_tasks(outcome)
        today == IsoFormat(day)
    IN IF tasks.raised THEN TasksError(tasks.exc)
       ELSE LET loop == FormatLoop(Get(tasks.value[1], "results", <<>>), <<>>, FALSE, today)
            IN IF loop.raised THEN TasksError(loop.exc)
               ELSE TodayResult(loop.value[1])

list_all_tasks ==
    /\ pc = "serving"
    /\ call = NoCall
    /\ \E outcome \in QueryOutcomes :
          call' = [tool |-> "list_all_tasks", query |-> outcome, outcome |-> "returned",
                   result |-> ListAllTasksReturn(outcome)]
    /\ UNCHANGED <<envFileExists, environ, pc, NOTION_API_KEY, DATABASE_ID, mcp,
                   startupError, pages, fetch>>

show_today_tasks ==
    /\ pc = "serving"
    /\ call = NoCall
    /\ \E outcome \in QueryOutcomes, day \in Days :
          call' = [tool |-> "show_today_tasks", query |-> outcome, today |-> day,
                   outcome |-> "returned", result |-> ShowTodayTasksReturn(outcome, day)]
    /\ UNCHANGED <<envFileExists, environ, pc, NOTION_API_KEY, DATABASE_ID, mcp,
                   startupError, pages, fetch>>

(***************************************************************************)
(* get_database_schema, lines 153-172.                                     *)
(***************************************************************************)
PropertyDefs ==
    LET typed(t) == [k \in {"type"} |-> t]
        untyped == [k \in {"name"} |-> "Broken"]
    IN {<<>>,
        [n \in {"Task"} |-> typed("title")],
        [n \in {"Task", "Deadline"} |-> IF n = "Task" THEN typed("title") ELSE typed("date")],
        [n \in {"Task", "Broken"} |-> IF n = "Task" THEN typed("title") ELSE untyped]}

SchemaOutcomes ==
    {[ok |-> FALSE, exc |-> e, body |-> <<>>] : e \in HttpErrors}
    \cup {[ok |-> TRUE, exc |-> "", body |-> <<>>]}
    \cup {[ok |-> TRUE, exc |-> "", body |-> [k \in {"properties"} |-> p]] : p \in PropertyDefs}

\* Line 167: the comprehension raises KeyError on a property without "type".
SchemaOf(properties) ==
    IF \E name \in DOMAIN properties : "type" \notin DOMAIN properties[name]
    THEN Raise("KeyError")
    ELSE Ok([name \in DOMAIN properties |-> properties[name]["type"]])

\* Lines 156-172.
GetDatabaseSchemaReturn(outcome) ==
    IF ~outcome.ok THEN ErrorText("Error fetching database schema: ", outcome.exc)
    ELSE LET schema == SchemaOf(Get(outcome.body, "properties", <<>>))
         IN IF schema.raised THEN ErrorText("Error fetching database schema: ", schema.exc)
            ELSE JsonDumps(schema.value[1])

get_database_schema ==
    /\ pc = "serving"
    /\ call = NoCall
    /\ \E outcome \in SchemaOutcomes :
          call' = [tool |-> "get_database_schema", response |-> outcome,
                   outcome |-> "returned", result |-> GetDatabaseSchemaReturn(outcome)]
    /\ UNCHANGED <<envFileExists, environ, pc, NOTION_API_KEY, DATABASE_ID, mcp,
                   startupError, pages, fetch>>

(***************************************************************************)
(* add_task_to_notion, lines 210-230, and add_articles_as_reading_tasks,   *)
(* lines 232-245.                                                          *)
(***************************************************************************)
\* Lines 223-230 against the stub: the stored page, or the exception of
\* raise_for_status.  Nothing in the function catches it.
AddTask(stored, title, url, ok) ==
    IF ok THEN Ok(CreatedPage(title, url, Len(stored) + 1))
    ELSE Raise("HTTPStatusError")

add_task_to_notion ==
    /\ pc = "serving"
    /\ call = NoCall
    /\ Len(pages) < MaxPages
    /\ \E title \in Titles, url \in Urls, ok \in BOOLEAN :
          LET r == AddTask(pages, title, url, ok)
          IN /\ pages' = IF r.raised THEN pages ELSE Append(pages, r.value[1])
             /\ call' = [tool |-> "add_task_to_notion", title |-> title, url |-> url,
                         outcome |-> IF r.raised THEN "raised" ELSE "returned",
                         exc |-> r.exc,
                         result |-> IF r.raised THEN NoResult ELSE DictValue(r.value[1])]
    /\ UNCHANGED <<envFileExists, environ, pc, NOTION_API_KEY, DATABASE_ID, mcp,
                   startupError, fetch>>

\* An article as the caller passes it: a dict that may lack either key.
ArticleOf(t, u) ==
    LET keys == (IF t # None THEN {"title"} ELSE {}) \cup (IF u # None THEN {"url"} ELSE {})
    IN [k \in keys |-> IF k = "title" THEN t[1] ELSE u[1]]

Articles == {ArticleOf(t, u) : t \in Optional(Titles), u \in Optional(Urls)}

\* Lines 239-244 for the articles from index i on.  st holds the results list,
\* the stub's pages and the calls made to add_task_to_notion so far.  The handler
\* of line 244 reads article["title"] again, outside any try.
RECURSIVE BulkLoop(_, _, _, _)
BulkLoop(articles, oks, i, st) ==
    IF i > Len(articles) THEN st
    ELSE LET article == articles[i]
             args == IF "title" \notin DOMAIN article THEN Raise("KeyError")
                     ELSE IF "url" \notin DOMAIN article THEN Raise("KeyError")
                     ELSE Ok(<<article["title"], article["url"]>>)
             res == IF args.raised THEN args
                    ELSE AddTask(st.pages, article["title"], article["url"], oks[i])
             attempts == IF args.raised THEN st.attempts
                         ELSE Append(st.attempts, args.value[1])
         IN IF ~res.raised
            THEN BulkLoop(articles, oks, i + 1,
                          [st EXCEPT !.results = Append(@, [title |-> article["title"],
                                                            status |-> <<"added">>]),
                                     !.pages = Append(@, res.value[1]),
                                     !.attempts = attempts])
            ELSE IF "title" \notin DOMAIN article
            THEN [st EXCEPT !.raised = TRUE, !.exc = "KeyError", !.attempts = attempts]
            ELSE BulkLoop(articles, oks, i + 1,
                          [st EXCEPT !.results = Append(@, [title |-> article["title"],
                                                            status |-> <<"error: ", res.exc>>]),
                                     !.attempts = attempts])

add_articles_as_reading_tasks ==
    /\ pc = "serving"
    /\ call = NoCall
    /\ \E articles \in SeqsUpTo(Articles, MaxArticles) :
       \E oks \in [1..Len(articles) -> BOOLEAN] :
          LET st == BulkLoop(articles, oks, 1,
                             [results |-> <<>>, pages |-> pages, attempts |-> <<>>,
                              raised |-> FALSE, exc |-> ""])
          IN /\ Len(st.pages) <= MaxPages
             /\ pages' = st.pages
             /\ call' = [tool |-> "add_articles_as_reading_tasks", articles |-> articles,
                         oks |-> oks, attempts |-> st.attempts,
                         outcome |-> IF st.raised THEN "raised" ELSE "returned",
                         exc |-> st.exc,
                         result |-> IF st.raised THEN NoResult ELSE JsonDumps(st.results)]
    /\ UNCHANGED <<envFileExists, environ, pc, NOTION_API_KEY, DATABASE_ID, mcp,
                   startupError, fetch>>

\* The hosting runtime hands the outcome of the invocation to its caller; the
\* tools keep nothing of it (no state is shared across invocations).
Respond ==
    /\ pc = "serving"
    /\ call # NoCall
    /\ call' = NoCall
    /\ UNCHANGED <<envFileExists, environ, pc, NOTION_API_KEY, DATABASE_ID, mcp,
                   startupError, pages, fetch>>

(***************************************************************************)
(* fetch_latest_articles, lines 174-208.                                   *)
(***************************************************************************)
EntryLimit == 5

UrlA == <<"A">>
UrlB == <<"B">>

\* Lines of feeds.txt: empty, comments, and two URLs with and without blanks
\* around them.
FileLines == {<<>>, <<"#", "A">>, <<" ", "#">>, UrlA, <<" ", "B", " ">>}

FeedFiles == SeqsUpTo(FileLines, MaxLines)

\* str.strip() on blanks.
RECURSIVE LStrip(_)
LStrip(line) == IF line # <<>> /\ Head(line) = " " THEN LStrip(Tail(line)) ELSE line

Strip(line) == Reverse(LStrip(Reverse(LStrip(line))))

\* Line 184: the stripped lines that are neither empty nor comments.
RECURSIVE ReadFeeds(_)
ReadFeeds(file) ==
    IF file = <<>> THEN <<>>
    ELSE LET line == Strip(Head(file))
         IN IF line # <<>> /\ ~StartsWith(line, <<"#">>)
            THEN <<line>> \o ReadFeeds(Tail(file))
            ELSE ReadFeeds(Tail(file))

\* Entry k of the feed at url.  Odd entries carry a published date; the entry
\* numbered bad lacks its link, so that entry.link raises AttributeError.
EntryOf(url, k, bad) ==
    LET keys == {"title"} \cup (IF k # bad THEN {"link"} ELSE {})
                \cup (IF k % 2 = 1 THEN {"published"} ELSE {})
    IN [a \in keys |-> <<url, a, k>>]

\* feed.feed: the feed at UrlA declares a title, the other one does not.
FeedMeta(url) == IF url = UrlA THEN [a \in {"title"} |-> <<"Feed", "A">>] ELSE <<>>

\* What requests.get and feedparser.parse give for a URL: an exception, or a feed
\* of n entries of which at most one (bad, 0 for none) is malformed.
FeedOutcomes(url) ==
    {[ok |-> FALSE, exc |-> "ConnectionError", meta |-> <<>>, entries |-> <<>>]}
    \cup UNION {{[ok |-> TRUE, exc |-> "", meta |-> FeedMeta(url),
                   entries |-> [k \in 1..n |-> EntryOf(url, k, bad)]] : bad \in 0..n} :
                     n \in 0..MaxEntries}

\* Line 205.
ErrorMarker(url, reason) == [error |-> <<"Failed to fetch ", url, ": ", reason>>]

\* Lines 198-203.
ArticleOfEntry(entry, meta, url) ==
    [title |-> entry["title"], link |-> entry["link"],
     published |-> IF "published" \in DOMAIN entry THEN Some(entry["published"]) ELSE None,
     source |-> Get(meta, "title", url)]

\* A faulty variant of TakeEntries: feed.entries without the slice.
TakeAllEntries(entries) == entries

\* Line 197: feed.entries[:5].
TakeEntries(entries) == SubSeq(entries, 1, Min(Len(entries), EntryLimit))

\* Lines 197-205 for the entries left: each article is appended to the shared
\* list as it is built; an exception ends the feed with a marker appended.
RECURSIVE EntryLoop(_, _, _, _)
EntryLoop(articles, entries, meta, url) ==
    IF entries = <<>> THEN articles
    ELSE LET entry == Head(entries)
         IN IF "title" \notin DOMAIN entry \/ "link" \notin DOMAIN entry
            THEN Append(articles, ErrorMarker(url, "AttributeError"))
            ELSE EntryLoop(Append(articles, ArticleOfEntry(entry, meta, url)),
                           Tail(entries), meta, url)

\* A faulty variant of ProcessFeed: a failed request leaves no marker.
ProcessFeedNoMarker(articles, url, outcome) ==
    IF ~outcome.ok THEN articles
    ELSE EntryLoop(articles, TakeEntries(outcome.entries), outcome.meta, url)

\* Lines 191-205: one iteration of the loop over the feeds.
ProcessFeed(articles, url, outcome) ==
    IF ~outcome.ok THEN Append(articles, ErrorMarker(url, outcome.exc))
    ELSE EntryLoop(articles, TakeEntries(outcome.entries), outcome.meta, url)

FetchIdle == [pc |-> "idle"]

\* Lines 179-189: read the feed list.
FetchStart ==
    /\ pc = "serving"
    /\ call = NoCall
    /\ fetch = FetchIdle
    /\ \E exists \in BOOLEAN, file \in FeedFiles :
          LET feeds == ReadFeeds(file)
          IN IF ~exists
             THEN /\ call' = [tool |-> "fetch_latest_articles", fileExists |-> FALSE,
                              feeds |-> <<>>, outcomes |-> <<>>, outcome |-> "raised",
                              exc |-> "FileNotFoundError", result |-> NoResult]
                  /\ UNCHANGED fetch
             ELSE IF feeds = <<>>
             THEN /\ call' = [tool |-> "fetch_latest_articles", fileExists |-> TRUE,
                              feeds |-> <<>>, outcomes |-> <<>>, outcome |-> "returned",
                              exc |-> "", result |-> Sentence("No feeds found.")]
                  /\ UNCHANGED fetch
             ELSE /\ fetch' = [pc |-> "loop", feeds |-> feeds, i |-> 1,
                               articles |-> <<>>, outcomes |-> <<>>]
                  /\ UNCHANGED call
    /\ UNCHANGED <<envFileExists, environ, pc, NOTION_API_KEY, DATABASE_ID, mcp,
                   startupError, pages>>

\* Lines 190-205: fetch and process the next feed.
FetchFeed ==
    /\ fetch.pc = "loop"
    /\ fetch.i <= Len(fetch.feeds)
    /\ \E outcome \in FeedOutcomes(fetch.feeds[fetch.i]) :
          fetch' = [fetch EXCEPT !.i = @ + 1,
                                 !.articles = ProcessFeed(@, fetch.feeds[fetch.i], outcome),
                                 !.outcomes = Append(@, outcome)]
    /\ UNCHANGED <<envFileExists, environ, pc, NOTION_API_KEY, DATABASE_ID, mcp,
                   startupError, pages, call>>

\* Lines 206-208.
FetchReturn ==
    /\ fetch.pc = "loop"
    /\ fetch.i > Len(fetch.feeds)
    /\ call' = [tool |-> "fetch_latest_articles", fileExists |-> TRUE,
                feeds |-> fetch.feeds, outcomes |-> fetch.outcomes,
                outcome |-> "returned", exc |-> "",
                result |-> IF fetch.articles = <<>> THEN Sentence("No articles found.")
                           ELSE JsonDumps(fetch.articles)]
    /\ fetch' = FetchIdle
    /\ UNCHANGED <<envFileExists, environ, pc, NOTION_API_KEY, DATABASE_ID, mcp,
                   startupError, pages>>

Init ==
    /\ envFileExists \in BOOLEAN
    /\ environ \in [{"NOTION_API_KEY", "NOTION_DATABASE_ID"} -> EnvValues]
    /\ pc = "import"
    /\ NOTION_API_KEY = None
    /\ DATABASE_ID = None
    /\ mcp = "unset"
    /\ startupError = None
    /\ pages = <<>>
    /\ call = NoCall
    /\ fetch = FetchIdle

Next ==
    \/ LoadEnv
    \/ ReadSettings
    \/ CreateServer
    \/ list_all_tasks
    \/ show_today_tasks
    \/ get_database_schema
    \/ add_task_to_notion
    \/ add_articles_as_reading_tasks
    \/ Respond

Spec == Init /\ [][Next]_vars

\* fetch_latest_articles shares no state with the Notion tools: it is explored by
\* itself, from the served state.
InitFeeds ==
    /\ envFileExists = TRUE
    /\ environ = [k \in {"NOTION_API_KEY", "NOTION_DATABASE_ID"} |-> Some("secret")]
    /\ pc = "serving"
    /\ NOTION_API_KEY = Some("secret")
    /\ DATABASE_ID = Some("secret")
    /\ mcp = "Notion Task Manager"
    /\ startupError = None
    /\ pages = <<>>
    /\ call = NoCall
    /\ fetch = FetchIdle

NextFeeds ==
    \/ FetchStart
    \/ FetchFeed
    \/ FetchReturn
    \/ Respond

SpecFeeds == InitFeeds /\ [][NextFeeds]_vars
(***************************************************************************)
(* Properties.                                                             *)
(***************************************************************************)
Tools ==
    {"show_today_tasks", "list_all_tasks", "get_database_schema",
     "fetch_latest_articles", "add_task_to_notion", "add_articles_as_reading_tasks"}

\* The results of the query behind the last list_all_tasks or show_today_tasks.
QueryResults == Get(call.query.body, "results", <<>>)

\* The list a tool returned as JSON; empty when it returned a sentence instead.
Items(result) == IF result.form = "json" THEN result.body[1] ELSE <<>>

\* C1: every invocation of a tool ends by returning a str to the caller; none
\* ends with an exception escaping to the hosting runtime.
C1_EveryToolReturnsString ==
    call.tool \in Tools => call.outcome = "returned" /\ call.result.type = "str"

PageDeadline(page) ==
    IF "Deadline" \in DOMAIN page.properties /\ page.properties["Deadline"].date # None
    THEN Some(page.properties["Deadline"].date[1].start)
    ELSE None

Appears(page, result) ==
    \E i \in 1..Len(Items(result)) : Items(result)[i].id = page.id

\* C2: after a successful query, a page appears as a task record in the JSON
\* array show_today_tasks returns if and only if its deadline start is present
\* and begins with today's date in YYYY-MM-DD form.
C2_TodayFilter ==
    (call.tool = "show_today_tasks" /\ call.query.ok) =>
        \A i \in 1..Len(QueryResults) :
            LET page == QueryResults[i]
                deadline == PageDeadline(page)
            IN Appears(page, call.result)
               <=> (deadline # None /\ StartsWith(deadline[1], IsoFormat(call.today)))

\* C3: once add_task_to_notion(title, url) has succeeded against the stub, a
\* following list_all_tasks returns a JSON array with a task record whose task
\* field equals the title.
C3_RoundTrip ==
    (call.tool = "list_all_tasks" /\ call.query.ok) =>
        \A n \in 1..Len(pages) :
            \E i \in 1..Len(Items(call.result)) :
                Items(call.result)[i].task = pages[n].properties["Task"].title[1].text.content

OptionalProperties == {"Task", "Checkbox", "Deadline"}

\* C4: for a page of the query results whose optional properties are absent, the
\* formatting of list_all_tasks and show_today_tasks does not raise and yields
\* task "", completed false, deadline null, with the page's id and created_time.
C4_MissingPropertiesFormat ==
    (call.tool \in {"list_all_tasks", "show_today_tasks"} /\ call.query.ok) =>
        \A i \in 1..Len(QueryResults) :
            LET page == QueryResults[i]
                f == FormatTask(page)
            IN DOMAIN page.properties \cap OptionalProperties = {} =>
                  /\ ~f.raised
                  /\ f.value[1] = [id |-> page.id, task |-> "", completed |-> FALSE,
                                   deadline |-> None, created |-> page.created_time]

IsSentence(result, s) ==
    /\ result.type = "str"
    /\ result.form = "sentence"
    /\ result.body = <<s>>

\* C5: for a query response with zero results, list_all_tasks returns exactly
\* "No tasks found in the database." and show_today_tasks returns exactly
\* "No tasks scheduled for today."
C5_EmptySentinels ==
    /\ (call.tool = "list_all_tasks" /\ call.query.ok /\ QueryResults = <<>>) =>
          /\ call.outcome = "returned"
          /\ IsSentence(call.result, "No tasks found in the database.")
    /\ (call.tool = "show_today_tasks" /\ call.query.ok /\ QueryResults = <<>>) =>
          /\ call.outcome = "returned"
          /\ IsSentence(call.result, "No tasks scheduled for today.")

C5_Witness ==
    /\ call.tool = "list_all_tasks"
    /\ call.query.ok
    /\ "results" \in DOMAIN call.query.body
    /\ QueryResults = <<>>
    /\ IsSentence(call.result, "No tasks found in the database.")

\* The key the start-up reports: NOTION_API_KEY is checked first.
FirstMissingKey ==
    IF ~Truthy(environ["NOTION_API_KEY"]) THEN "NOTION_API_KEY" ELSE "NOTION_DATABASE_ID"

SomeKeyMissing ==
    \E k \in {"NOTION_API_KEY", "NOTION_DATABASE_ID"} : ~Truthy(environ[k])

StartupEnded == pc \in {"import_failed", "serving"}

\* C9 as the spec states it: whenever NOTION_API_KEY or NOTION_DATABASE_ID is
\* missing, the server is never initialized and the start-up ends with an error
\* that names the missing key.
C9_MissingKeyNamed ==
    SomeKeyMissing =>
        /\ mcp = "unset"
        /\ pc # "serving"
        /\ StartupEnded =>
              \E k \in {"NOTION_API_KEY", "NOTION_DATABASE_ID"} :
                  /\ ~Truthy(environ[k])
                  /\ startupError = Some(MissingKeyError(k))

\* C9 amended: when the .env file exists and NOTION_API_KEY or NOTION_DATABASE_ID
\* is missing (unset or empty), the server is never initialized and the start-up
\* ends with a ValueError naming the first missing key; when the .env file does
\* not exist the start-up ends with a FileNotFoundError about that file, whatever
\* the keys, and the server is not initialized either.
C9_MissingKeyNamedWhenEnvFileExists ==
    /\ (SomeKeyMissing \/ ~envFileExists) => (mcp = "unset" /\ pc # "serving")
    /\ (StartupEnded /\ envFileExists /\ SomeKeyMissing) =>
          startupError = Some(MissingKeyError(FirstMissingKey))
    /\ (StartupEnded /\ ~envFileExists) => startupError = Some(EnvFileError)

C9_Witness ==
    /\ pc = "import_failed"
    /\ envFileExists
    /\ Truthy(environ["NOTION_API_KEY"])
    /\ ~Truthy(environ["NOTION_DATABASE_ID"])
    /\ startupError = Some(MissingKeyError("NOTION_DATABASE_ID"))
    /\ mcp = "unset"

\* C7: add_articles_as_reading_tasks attempts add_task_to_notion once for each
\* article in input order, whatever fails, and returns a JSON array with exactly
\* one {title, status} outcome per article, in input order: "added" for a
\* success, an error status for a failure.
C7_BulkOutcomes ==
    call.tool = "add_articles_as_reading_tasks" =>
        /\ call.outcome = "returned"
        /\ call.result.form = "json"
        /\ Len(Items(call.result)) = Len(call.articles)
        /\ Len(call.attempts) = Len(call.articles)
        /\ \A i \in 1..Len(call.articles) :
              /\ call.attempts[i] = <<call.articles[i]["title"], call.articles[i]["url"]>>
              /\ Items(call.result)[i].title = call.articles[i]["title"]
              /\ IF call.oks[i]
                 THEN Items(call.result)[i].status = <<"added">>
                 ELSE Items(call.result)[i].status = <<"error: ", "HTTPStatusError">>

(***************************************************************************)
(* Properties of fetch_latest_articles, under SpecFeeds.                   *)
(***************************************************************************)
FetchReturned ==
    /\ call.tool = "fetch_latest_articles"
    /\ call.outcome = "returned"
    /\ call.feeds # <<>>

Malformed(entry) == "title" \notin DOMAIN entry \/ "link" \notin DOMAIN entry

\* The entries of a fetched feed that the claims speak of: its first 5.
Visited(o) == 1..Min(Len(o.entries), 5)

\* The feed failed: the request raised, or a visited entry is malformed.
FeedFailed(o) == ~o.ok \/ \E k \in Visited(o) : Malformed(o.entries[k])

FailureReason(o) == IF ~o.ok THEN o.exc ELSE "AttributeError"

IsMarker(item) == "error" \in DOMAIN item
IsArticle(item) == "error" \notin DOMAIN item

HasMarker(items, marker) ==
    \E j \in 1..Len(items) : IsMarker(items[j]) /\ items[j] = marker

HasArticle(items, article) ==
    \E j \in 1..Len(items) : IsArticle(items[j]) /\ items[j] = article

Taken(o) ==
    IF ~o.ok THEN 0
    ELSE IF \E k \in Visited(o) : Malformed(o.entries[k])
    THEN (CHOOSE k \in Visited(o) :
             /\ Malformed(o.entries[k])
             /\ \A j \in 1..(k - 1) : ~Malformed(o.entries[j])) - 1
    ELSE Min(Len(o.entries), 5)

RECURSIVE FirstEntriesOfEach(_, _, _)
FirstEntriesOfEach(feeds, outcomes, i) ==
    IF i > Len(feeds) THEN <<>>
    ELSE [k \in 1..Taken(outcomes[i]) |->
             ArticleOfEntry(outcomes[i].entries[k], outcomes[i].meta, feeds[i])]
         \o FirstEntriesOfEach(feeds, outcomes, i + 1)

\* C8: whatever the number of entries of a feed, the returned list holds at most
\* 5 articles of it, and they are the feed's first entries in the feed's order.
C8_FirstFivePerFeed ==
    FetchReturned =>
        /\ Len(SelectSeq(Items(call.result), IsArticle)) <= 5 * Len(call.feeds)
        /\ SelectSeq(Items(call.result), IsArticle)
              = FirstEntriesOfEach(call.feeds, call.outcomes, 1)

C8_Witness ==
    /\ FetchReturned
    /\ \E i \in 1..Len(call.feeds) :
          /\ call.outcomes[i].ok
          /\ Len(call.outcomes[i].entries) > 5
          /\ ~FeedFailed(call.outcomes[i])
    /\ Len(SelectSeq(Items(call.result), IsArticle)) >= 5

RECURSIVE MarkerInPlaceOfArticles(_, _, _)
MarkerInPlaceOfArticles(feeds, outcomes, i) ==
    IF i > Len(feeds) THEN <<>>
    ELSE (IF FeedFailed(outcomes[i])
          THEN <<ErrorMarker(feeds[i], FailureReason(outcomes[i]))>>
          ELSE [k \in 1..Min(Len(outcomes[i].entries), 5) |->
                   ArticleOfEntry(outcomes[i].entries[k], outcomes[i].meta, feeds[i])])
         \o MarkerInPlaceOfArticles(feeds, outcomes, i + 1)

\* C10: when fetching or processing a feed fails at any point, the returned list
\* holds for that feed only its error marker, in place of its articles.
C10_FailedFeedOnlyMarker ==
    FetchReturned =>
        Items(call.result) = MarkerInPlaceOfArticles(call.feeds, call.outcomes, 1)

====
